---- MODULE Spec2Model ----
(***************************************************************************)
(* A model of the rula rule engine: the pool primitives of types.go        *)
(* (PoolSet.Quantity/Add/Set/Remove/SetCapacity/AddPool), the runner of    *)
(* runner.go (Runner.Run, Runner.RunRule, Runner.canRun) and the onfail    *)
(* resolution of RuleParser.Parse.                                         *)
(*                                                                         *)
(* Pool sets are reference values in Go (maps of *Pool), so the model      *)
(* keeps a heap `pools` from pool-set identities to their contents and a   *)
(* RuleContext `ctx` from relations to pool-set identities; two relations  *)
(* may name one identity.  RunRule is recursive (the onfail delegation),   *)
(* so the model keeps an explicit call stack of RunRule frames.            *)
(***************************************************************************)
EXTENDS Integers, Sequences, FiniteSets, TLC

VARIABLES
    parse,       \* the call of RuleParser.Parse: the rule file it reads, whether it
                 \* has returned, and the rule its error names ("" for no error)
    rules,       \* the []*Rule the host parsed: a sequence of Rule records
    ctx,         \* RuleContext.Pools: relation -> pool-set identity, or NoSet
    pools,       \* the heap: pool-set identity -> resource -> Pool
    ruleStates,  \* Runner.ruleStates: rule -> LastRun (0 when never stored)
    stack,       \* the active RunRule calls, the innermost last
    pc,          \* "idle", "running", "returned" or "crashed"
    call,        \* the host's current call of Run or RunRule: its arguments, Run's
                 \* loop position idx, its result, and as history the list
                 \* positions Run called, the rules evaluated, and the pools and
                 \* rule states the call started from
    last,        \* history: the RunRule call that returned most recently
    lastAct,     \* history: per rule, the tick of its latest activation (-1: none)
    op           \* history: the latest direct PoolSet operation of the host

vars == <<parse, rules, ctx, pools, ruleStates, stack, pc, call, last, lastAct, op>>

----------------------------------------------------------------------------
(* Bounds of the model. *)

\* the host's ticks range over 0..MaxTick
MaxTick == 3

\* the deepest RunRule recursion the model follows before the Go stack is
\* taken to be exhausted
MaxDepth == 3

\* direct PoolSet operations take quantities in -MaxArg..MaxArg
MaxArg == 2

\* direct SetCapacity/AddPool take capacities in 0..MaxCap
MaxCap == 2

----------------------------------------------------------------------------
(* types.go: resources, relations, operators, pools. *)

Resources == {"iron_ore", "iron", "workers"}

\* a nil *Resource
NilRes == "nil_resource"

RelationSelf == "self"

RelationGlobal == "global"

RelationLocation == "location"

Relations == {RelationSelf, RelationGlobal, RelationLocation}

OpEquals == 0

OpGreaterThan == 1

OpGreaterThanOrEqual == 2

OpLessThan == 3

OpLessThanOrEqual == 4

\* identities of the pool sets on the heap
PoolSetIds == {"A", "B"}

\* a nil PoolSet
NilSet == "nil_set"

\* a relation that is no key of RuleContext.Pools
NoSet == "absent"

\* a resource that is no key of a PoolSet
NoPool == [ok |-> FALSE, Quantity |-> 0, Capacity |-> 0]

Pool(capacity, quantity) == [ok |-> TRUE, Quantity |-> quantity, Capacity |-> capacity]

\* the pool of resource r in pool set ps (the map lookup p[r])
Lookup(heap, ps, r) == heap[ps][r]

\* whether the lookup p[r] of the pool primitives finds a pool
HasPool(heap, ps, r) == ps # NilSet /\ r # NilRes /\ heap[ps][r].ok

Store(heap, ps, r, pool) == [heap EXCEPT ![ps][r] = pool]

\* PoolSet.Quantity
Quantity(heap, ps, r) ==
    IF ps = NilSet \/ r = NilRes THEN 0
    ELSE IF ~heap[ps][r].ok THEN 0
    ELSE heap[ps][r].Quantity

\* PoolSet.Capacity
Capacity(heap, ps, r) ==
    IF ps = NilSet \/ r = NilRes THEN 0
    ELSE IF ~heap[ps][r].ok THEN 0
    ELSE heap[ps][r].Capacity

\* the clamp shared by Add and Set: quantity above capacity is cut to capacity
Clamp(heap, ps, r, q) ==
    LET pool == heap[ps][r] IN
    IF q > pool.Capacity
    THEN [heap |-> Store(heap, ps, r, [pool EXCEPT !.Quantity = pool.Capacity]),
          ret |-> q - pool.Capacity]
    ELSE [heap |-> Store(heap, ps, r, [pool EXCEPT !.Quantity = q]), ret |-> 0]

\* PoolSet.Add: the heap after the call and the returned excess
Add(heap, ps, r, q) ==
    IF ps = NilSet \/ r = NilRes THEN [heap |-> heap, ret |-> q]
    ELSE IF ~heap[ps][r].ok THEN [heap |-> heap, ret |-> q]
    ELSE Clamp(heap, ps, r, heap[ps][r].Quantity + q)

\* PoolSet.Set
Set(heap, ps, r, q) ==
    IF ps = NilSet \/ r = NilRes THEN [heap |-> heap, ret |-> q]
    ELSE IF ~heap[ps][r].ok THEN [heap |-> heap, ret |-> q]
    ELSE Clamp(heap, ps, r, q)

\* a Remove that takes what the pool holds when it holds less than q
RemovePartial(heap, ps, r, q) ==
    IF ps = NilSet \/ r = NilRes THEN [heap |-> heap, ret |-> q]
    ELSE IF ~heap[ps][r].ok THEN [heap |-> heap, ret |-> q]
    ELSE IF heap[ps][r].Quantity < q
    THEN [heap |-> Store(heap, ps, r, [heap[ps][r] EXCEPT !.Quantity = 0]),
          ret |-> q - heap[ps][r].Quantity]
    ELSE [heap |-> Store(heap, ps, r,
                         [heap[ps][r] EXCEPT !.Quantity = heap[ps][r].Quantity - q]),
          ret |-> 0]

\* PoolSet.Remove
Remove(heap, ps, r, q) ==
    IF ps = NilSet \/ r = NilRes THEN [heap |-> heap, ret |-> q]
    ELSE IF ~heap[ps][r].ok THEN [heap |-> heap, ret |-> q]
    ELSE IF heap[ps][r].Quantity < q THEN [heap |-> heap, ret |-> q]
    ELSE [heap |-> Store(heap, ps, r,
                         [heap[ps][r] EXCEPT !.Quantity = heap[ps][r].Quantity - q]),
          ret |-> 0]

\* a SetCapacity that cuts the quantity of an existing pool to the new capacity
SetCapacityClamping(heap, ps, r, c) ==
    IF ~heap[ps][r].ok THEN Store(heap, ps, r, Pool(c, 0))
    ELSE Store(heap, ps, r,
               [heap[ps][r] EXCEPT !.Capacity = c,
                                   !.Quantity = IF heap[ps][r].Quantity > c THEN c
                                                ELSE heap[ps][r].Quantity])

\* PoolSet.SetCapacity on a PoolSet that is not nil (r may be nil: the pool
\* is stored under the nil key)
SetCapacity(heap, ps, r, c) ==
    IF ~heap[ps][r].ok THEN Store(heap, ps, r, Pool(c, 0))
    ELSE Store(heap, ps, r, [heap[ps][r] EXCEPT !.Capacity = c])

\* PoolSet.AddPool on a PoolSet and a resource that are not nil: the pool of
\* r is replaced
AddPool(heap, ps, r, capacity, quantity) == Store(heap, ps, r, Pool(capacity, quantity))

----------------------------------------------------------------------------
(* types.go: rules. *)

\* ResourceSpecifier
Specifier(rel, res, q) == [Relation |-> rel, Resource |-> res, Quantity |-> q]

\* ResourceCondition
Condition(rel, res, o, q) == [Relation |-> rel, Resource |-> res, Quantity |-> q, Op |-> o]

\* Rule.RepeatFrom = nil
NoSource == [set |-> FALSE, Relation |-> RelationSelf, Resource |-> NilRes]

\* ResourceSource
Source(rel, res) == [set |-> TRUE, Relation |-> rel, Resource |-> res]

\* Rule.OnFail = nil; otherwise OnFail is the position of the target in `rules`
NoRule == 0

\* the rule RuleParser.Parse starts a block with: every field zero, Period 1
NewRule(name) ==
    [Name |-> name, Period |-> 1, Preconditions |-> <<>>, Inputs |-> <<>>,
     Outputs |-> <<>>, Sets |-> <<>>, Repeat |-> 0, RepeatFrom |-> NoSource,
     OnFail |-> NoRule]

----------------------------------------------------------------------------
(* runner.go: canRun and the effects of one round. *)

\* the switch on c.Op in canRun: "true", "false", or "err" for an unknown operator
Compare(o, q, target) ==
    CASE o = OpEquals -> IF q = target THEN "true" ELSE "false"
      [] o = OpGreaterThan -> IF q > target THEN "true" ELSE "false"
      [] o = OpGreaterThanOrEqual -> IF q >= target THEN "true" ELSE "false"
      [] o = OpLessThan -> IF q < target THEN "true" ELSE "false"
      [] o = OpLessThanOrEqual -> IF q <= target THEN "true" ELSE "false"
      [] OTHER -> "err"

\* the loop over rule.Preconditions, from the k-th on
RECURSIVE CheckPreconditions(_, _, _, _)
CheckPreconditions(conds, k, c, heap) ==
    IF k > Len(conds) THEN "true"
    ELSE IF c[conds[k].Relation] = NoSet THEN "err"
    ELSE LET v == Compare(conds[k].Op,
                          Quantity(heap, c[conds[k].Relation], conds[k].Resource),
                          conds[k].Quantity)
         IN IF v = "true" THEN CheckPreconditions(conds, k + 1, c, heap) ELSE v

\* the loop over rule.Inputs in canRun, from the k-th on
RECURSIVE CheckInputs(_, _, _, _)
CheckInputs(ins, k, c, heap) ==
    IF k > Len(ins) THEN "true"
    ELSE IF c[ins[k].Relation] = NoSet THEN "err"
    ELSE IF ins[k].Quantity > Quantity(heap, c[ins[k].Relation], ins[k].Resource)
    THEN "false"
    ELSE CheckInputs(ins, k + 1, c, heap)

\* Runner.canRun: "true", "false" (false, nil) or "err" (false, error)
canRun(rule, c, heap) ==
    LET pre == CheckPreconditions(rule.Preconditions, 1, c, heap) IN
    IF pre = "true" THEN CheckInputs(rule.Inputs, 1, c, heap) ELSE pre

\* a canRun that takes the first input when it has found it available
canRunTaking(rule, c, heap) ==
    IF CheckPreconditions(rule.Preconditions, 1, c, heap) # "true" \/ rule.Inputs = <<>>
    THEN heap
    ELSE IF c[rule.Inputs[1].Relation] = NoSet THEN heap
    ELSE Remove(heap, c[rule.Inputs[1].Relation], rule.Inputs[1].Resource,
                rule.Inputs[1].Quantity).heap

\* the pools after a call of canRun: canRun reads quantities through
\* PoolSet.Quantity and writes no pool
canRunPools(rule, c, heap) == heap

\* the loop "Adjust inputs" of RunRule, from the k-th input on
RECURSIVE RemoveInputs(_, _, _, _)
RemoveInputs(ins, k, c, heap) ==
    IF k > Len(ins) THEN [heap |-> heap, status |-> "ok"]
    ELSE IF c[ins[k].Relation] = NoSet THEN [heap |-> heap, status |-> "noInputSet"]
    ELSE LET r == Remove(heap, c[ins[k].Relation], ins[k].Resource, ins[k].Quantity)
         IN IF r.ret > 0 THEN [heap |-> r.heap, status |-> "notEnough"]
            ELSE RemoveInputs(ins, k + 1, c, r.heap)

\* the loop "Adjust outputs" of RunRule over rule.Outputs
RECURSIVE AddOutputs(_, _, _, _)
AddOutputs(outs, k, c, heap) ==
    IF k > Len(outs) THEN [heap |-> heap, status |-> "ok"]
    ELSE IF c[outs[k].Relation] = NoSet THEN [heap |-> heap, status |-> "noOutputSet"]
    ELSE AddOutputs(outs, k + 1, c,
                    Add(heap, c[outs[k].Relation], outs[k].Resource, outs[k].Quantity).heap)

\* the loop of RunRule over rule.Sets
RECURSIVE ApplySets(_, _, _, _)
ApplySets(sets, k, c, heap) ==
    IF k > Len(sets) THEN [heap |-> heap, status |-> "ok"]
    ELSE IF c[sets[k].Relation] = NoSet THEN [heap |-> heap, status |-> "noSetSet"]
    ELSE ApplySets(sets, k + 1, c,
                   Set(heap, c[sets[k].Relation], sets[k].Resource, sets[k].Quantity).heap)

\* a round that adds the outputs before it removes the inputs
ApplyRoundOutputsFirst(rule, c, heap) ==
    LET o == AddOutputs(rule.Outputs, 1, c, heap) IN
    IF o.status # "ok" THEN o
    ELSE LET i == RemoveInputs(rule.Inputs, 1, c, o.heap) IN
         IF i.status # "ok" THEN i
         ELSE ApplySets(rule.Sets, 1, c, i.heap)

\* a round that applies the sets before the outputs
ApplyRoundSetsFirst(rule, c, heap) ==
    LET i == RemoveInputs(rule.Inputs, 1, c, heap) IN
    IF i.status # "ok" THEN i
    ELSE LET s == ApplySets(rule.Sets, 1, c, i.heap) IN
         IF s.status # "ok" THEN s
         ELSE AddOutputs(rule.Outputs, 1, c, s.heap)

\* one round of RunRule after canRun returned true: inputs, then outputs, then
\* sets; a status other than "ok" is the `return nil` that ends the call there
ApplyRound(rule, c, heap) ==
    LET i == RemoveInputs(rule.Inputs, 1, c, heap) IN
    IF i.status # "ok" THEN i
    ELSE LET o == AddOutputs(rule.Outputs, 1, c, i.heap) IN
         IF o.status # "ok" THEN o
         ELSE ApplySets(rule.Sets, 1, c, o.heap)

\* a round count that leaves out the first round of a fixed repeat
InitialRoundsRepeatOnly(rule, c, heap) ==
    IF rule.RepeatFrom.set
    THEN IF ~Lookup(heap, c[rule.RepeatFrom.Relation], rule.RepeatFrom.Resource).ok
         THEN 0
         ELSE Lookup(heap, c[rule.RepeatFrom.Relation], rule.RepeatFrom.Resource).Quantity
    ELSE rule.Repeat

\* a round count that adds a first round to the dynamic count as to the fixed one
InitialRoundsPlusFirst(rule, c, heap) ==
    IF rule.RepeatFrom.set
    THEN IF ~Lookup(heap, c[rule.RepeatFrom.Relation], rule.RepeatFrom.Resource).ok
         THEN 1
         ELSE Lookup(heap, c[rule.RepeatFrom.Relation], rule.RepeatFrom.Resource).Quantity + 1
    ELSE rule.Repeat + 1

\* a round loop that tests its count after the first round only
InitialRoundsAtLeastOne(rule, c, heap) ==
    IF InitialRoundsPlusFirst(rule, c, heap) < 2 THEN 1
    ELSE InitialRoundsPlusFirst(rule, c, heap) - 1

\* the round count RunRule starts with, once the repeat relation is known to
\* be in the context
InitialRounds(rule, c, heap) ==
    IF rule.RepeatFrom.set
    THEN IF ~Lookup(heap, c[rule.RepeatFrom.Relation], rule.RepeatFrom.Resource).ok
         THEN 0
         ELSE Lookup(heap, c[rule.RepeatFrom.Relation], rule.RepeatFrom.Resource).Quantity
    ELSE rule.Repeat + 1

\* a throttle that lets a rule run again one tick before its period is over
NotDueOneTickEarly(rule, lastRun, tick) == lastRun + rule.Period > tick + 1

\* a throttle that takes a rule without a last run to be due at once
NotDueUnlessFresh(rule, lastRun, tick) == lastRun # 0 /\ lastRun + rule.Period > tick

\* the throttle check of RunRule
NotDue(rule, lastRun, tick) == lastRun + rule.Period > tick

----------------------------------------------------------------------------
(* The rule files, contexts and pools the host starts from. *)

\* runner_test.go: a rule with a fallback that is also a rule of the list
ProgFallback ==
    << [NewRule("test") EXCEPT
          !.Inputs = <<Specifier(RelationSelf, "iron_ore", 3)>>,
          !.Outputs = <<Specifier(RelationSelf, "iron", 3)>>,
          !.OnFail = 2],
       [NewRule("test2") EXCEPT
          !.Inputs = <<Specifier(RelationSelf, "iron_ore", 1)>>,
          !.Outputs = <<Specifier(RelationSelf, "iron", 1)>>] >>

\* runner_test.go: a fixed repeat count, here with a period of two ticks
ProgRepeat ==
    << [NewRule("test") EXCEPT
          !.Period = 2,
          !.Inputs = <<Specifier(RelationSelf, "iron_ore", 1)>>,
          !.Outputs = <<Specifier(RelationSelf, "iron", 1)>>,
          !.Repeat = 2] >>

\* repeat using: a rule that consumes its own repeat source, one that adds to
\* it, and one whose source lies in another relation and whose fallback is
\* the first rule of the list
ProgDynamic ==
    << [NewRule("work") EXCEPT
          !.RepeatFrom = Source(RelationSelf, "workers"),
          !.Inputs = <<Specifier(RelationSelf, "workers", 1)>>,
          !.Outputs = <<Specifier(RelationSelf, "iron", 1)>>],
       [NewRule("hire") EXCEPT
          !.Period = 2,
          !.RepeatFrom = Source(RelationSelf, "workers"),
          !.Outputs = <<Specifier(RelationSelf, "workers", 1)>>],
       [NewRule("levy") EXCEPT
          !.Period = 2,
          !.RepeatFrom = Source(RelationGlobal, "workers"),
          !.Preconditions = <<Condition(RelationLocation, "iron", OpLessThan, 0)>>,
          !.Outputs = <<Specifier(RelationSelf, "iron", 1)>>,
          !.OnFail = 1] >>

\* rules whose round can stop midway: one resource in two inputs, an output
\* or a set in a relation the context may lack
ProgTorn ==
    << [NewRule("twice") EXCEPT
          !.Inputs = <<Specifier(RelationSelf, "iron_ore", 2),
                       Specifier(RelationGlobal, "iron_ore", 2)>>,
          !.Outputs = <<Specifier(RelationSelf, "iron", 1)>>],
       [NewRule("export") EXCEPT
          !.Period = 2,
          !.Inputs = <<Specifier(RelationSelf, "iron_ore", 1)>>,
          !.Outputs = <<Specifier(RelationLocation, "iron", 1)>>],
       [NewRule("reset") EXCEPT
          !.Period = 3,
          !.Inputs = <<Specifier(RelationSelf, "iron_ore", 1)>>,
          !.Sets = <<Specifier(RelationLocation, "iron", 1)>>] >>

\* a rule list in which the second rule names a relation in a precondition
\* and the first delegates to the third
ProgError ==
    << [NewRule("first") EXCEPT
          !.Inputs = <<Specifier(RelationSelf, "iron_ore", 2)>>,
          !.Outputs = <<Specifier(RelationSelf, "iron", 1)>>,
          !.OnFail = 3],
       [NewRule("second") EXCEPT
          !.Preconditions = <<Condition(RelationGlobal, "iron_ore", OpGreaterThanOrEqual, 1)>>,
          !.Inputs = <<Specifier(RelationLocation, "iron_ore", 1)>>,
          !.Outputs = <<Specifier(RelationSelf, "iron", 1)>>],
       [NewRule("third") EXCEPT
          !.Outputs = <<Specifier(RelationSelf, "workers", 1)>>] >>

\* runner_test.go: `every 0`, here as the fallback of a rule that cannot run
ProgManual ==
    << [NewRule("auto") EXCEPT
          !.Period = 2,
          !.Preconditions = <<Condition(RelationSelf, "iron", OpGreaterThan, 2)>>,
          !.Outputs = <<Specifier(RelationSelf, "iron", -1)>>,
          !.Repeat = 1,
          !.OnFail = 2],
       [NewRule("manual") EXCEPT
          !.Period = 0,
          !.Outputs = <<Specifier(RelationSelf, "iron", 2)>>,
          !.Sets = <<Specifier(RelationSelf, "iron_ore", 1)>>] >>

\* onfail references that lead back to the referencing rule
ProgCycle ==
    << [NewRule("self") EXCEPT
          !.Preconditions = <<Condition(RelationSelf, "iron", OpEquals, 1)>>,
          !.Outputs = <<Specifier(RelationSelf, "iron", 1)>>,
          !.OnFail = 1],
       [NewRule("ping") EXCEPT
          !.Period = 2,
          !.Inputs = <<Specifier(RelationSelf, "workers", 3)>>,
          !.OnFail = 3],
       [NewRule("pong") EXCEPT
          !.Preconditions = <<Condition(RelationSelf, "workers", OpLessThanOrEqual, 0)>>,
          !.Outputs = <<Specifier(RelationSelf, "workers", 1)>>,
          !.OnFail = 2] >>

\* a rule with an input and an output on one pool, and an output and a set
\* on another
ProgOrder ==
    << [NewRule("recast") EXCEPT
          !.Inputs = <<Specifier(RelationSelf, "iron", 1)>>,
          !.Outputs = <<Specifier(RelationSelf, "iron", 1),
                        Specifier(RelationSelf, "workers", 2)>>,
          !.Sets = <<Specifier(RelationSelf, "workers", 1)>>] >>

\* an onfail chain of two steps around a rule that names a relation in a
\* precondition: the first rule delegates to the third, the third to the
\* fourth
ProgChain ==
    << [NewRule("smelt") EXCEPT
          !.Period = 3,
          !.Inputs = <<Specifier(RelationSelf, "iron_ore", 3)>>,
          !.Outputs = <<Specifier(RelationSelf, "iron", 1)>>,
          !.OnFail = 3],
       [NewRule("trade") EXCEPT
          !.Period = 3,
          !.Preconditions = <<Condition(RelationLocation, "iron", OpGreaterThanOrEqual, 0)>>,
          !.Outputs = <<Specifier(RelationSelf, "iron_ore", 1)>>],
       [NewRule("forage") EXCEPT
          !.Period = 3,
          !.Inputs = <<Specifier(RelationSelf, "workers", 1)>>,
          !.Outputs = <<Specifier(RelationSelf, "iron_ore", 1)>>,
          !.OnFail = 4],
       [NewRule("rest") EXCEPT
          !.Period = 3,
          !.Sets = <<Specifier(RelationSelf, "workers", 1)>>] >>

\* BenchmarkRunRule: input and output of one resource
ProgNetZero ==
    << [NewRule("test") EXCEPT
          !.Inputs = <<Specifier(RelationSelf, "iron_ore", 1)>>,
          !.Outputs = <<Specifier(RelationSelf, "iron_ore", 1)>>] >>

Programs ==
    {ProgFallback, ProgRepeat, ProgDynamic, ProgTorn, ProgError, ProgManual,
     ProgCycle, ProgNetZero, ProgOrder, ProgChain}

\* Agent.RuleContext of an agent without relations
CtxSelf ==
    [rel \in Relations |-> IF rel = RelationSelf THEN "A" ELSE NoSet]

\* an agent with a global and a location relation to one other agent
CtxAll ==
    [rel \in Relations |-> IF rel = RelationSelf THEN "A" ELSE "B"]

\* an agent whose global relation is the agent itself
CtxAlias ==
    [rel \in Relations |-> IF rel = RelationLocation THEN NoSet ELSE "A"]

Contexts == {CtxSelf, CtxAll, CtxAlias}

\* the keys a PoolSet (map[*Resource]*Pool) can hold: nil is a key like another
PoolKeys == Resources \cup {NilRes}

EmptyPoolSet == [r \in PoolKeys |-> NoPool]

HeapRich ==
    [ps \in PoolSetIds |->
        IF ps = "A"
        THEN [EmptyPoolSet EXCEPT !["iron_ore"] = Pool(6, 4), !["iron"] = Pool(3, 0),
                                  !["workers"] = Pool(3, 2)]
        ELSE [EmptyPoolSet EXCEPT !["iron_ore"] = Pool(2, 2), !["iron"] = Pool(1, 0)]]

HeapPoor ==
    [ps \in PoolSetIds |->
        IF ps = "A"
        THEN [EmptyPoolSet EXCEPT !["iron_ore"] = Pool(6, 1), !["iron"] = Pool(3, 3),
                                  !["workers"] = Pool(3, 0)]
        ELSE [EmptyPoolSet EXCEPT !["iron_ore"] = Pool(2, 0), !["workers"] = Pool(1, 1)]]

Heaps == {HeapRich, HeapPoor}

----------------------------------------------------------------------------
(* runner.go: the call stack of RunRule. *)

\* a RunRule call: its arguments (rule, tick), its locals (state, rounds,
\* runOnce), whether the deferred update of lastRun is registered (due), where
\* it stands (at: "loop", "wait" for a fallback's return, "ret" when it is
\* about to return `result`), and as history the exit it took, the rounds it
\* completed and the heap it started from
Frame(i, t, lastRun, isDue, n, where, how, heap) ==
    [rule |-> i, tick |-> t, state |-> lastRun, due |-> isDue, rounds |-> n,
     runOnce |-> FALSE, at |-> where, result |-> "nil", exit |-> how,
     applied |-> 0, rounds0 |-> n, heap0 |-> heap]

\* RunRule from its first line to the head of the round loop
Enter(i, t, states, c, heap) ==
    IF NotDue(rules[i], states[i], t)
    THEN Frame(i, t, states[i], FALSE, 0, "ret", "notDue", heap)
    ELSE IF rules[i].RepeatFrom.set /\ c[rules[i].RepeatFrom.Relation] = NoSet
    THEN Frame(i, t, states[i], TRUE, 1, "ret", "noRepeatSet", heap)
    ELSE Frame(i, t, states[i], TRUE, InitialRounds(rules[i], c, heap), "loop", "none", heap)

\* an update of lastRun registered before the throttle check
DeferredAlways(states, f) == [states EXCEPT ![f.rule] = f.tick]

\* an update of lastRun written before `return nil` only, not deferred
DeferredOnNil(states, f) ==
    IF f.due /\ f.result = "nil" THEN [states EXCEPT ![f.rule] = f.tick] ELSE states

\* the deferred function of RunRule, run when a call that was due returns
Deferred(states, f) ==
    IF f.due THEN [states EXCEPT ![f.rule] = f.tick] ELSE states

\* a fallback call that passes the rule's last run instead of the tick
FallbackCallLastRun(f) == [rule |-> rules[f.rule].OnFail, tick |-> f.state]

\* the arguments RunRule passes to the call of its fallback
FallbackCall(f) == [rule |-> rules[f.rule].OnFail, tick |-> f.tick]

\* a Run that goes on to the next rule after an error
AfterRuleBestEffort(res, idx) == [done |-> FALSE, result |-> res, idx |-> idx + 1]

\* Run after RunRule returned res for the rule at position idx
AfterRule(res, idx) ==
    IF res = "err" THEN [done |-> TRUE, result |-> "err", idx |-> idx]
    ELSE [done |-> FALSE, result |-> "nil", idx |-> idx + 1]

\* a Run that calls RunRule on every rule of the list
SkippedNever(rule) == rule.Period < 0

\* whether Run skips the rule
Skipped(rule) == rule.Period = 0

Top == stack[Len(stack)]

SetTop(f) == [stack EXCEPT ![Len(stack)] = f]

NoFrame == Frame(NoRule, 0, 0, FALSE, 0, "ret", "none", EmptyPoolSet)

NoCall ==
    [kind |-> "none", tick |-> 0, idx |-> 0, rule |-> NoRule, result |-> "nil",
     visited |-> {}, evaluated |-> {}, pools0 |-> EmptyPoolSet, states0 |-> <<>>]

\* no rule file is being parsed
NoParse == [file |-> <<>>, state |-> "none", err |-> ""]

NoOp ==
    [name |-> "none", ps |-> NilSet, r |-> NilRes, q |-> 0, ret |-> 0, addSetOnly |-> TRUE,
     before |-> 0, afterAdd |-> FALSE, added |-> 0, was |-> 0]

\* history: the rules that passed the throttle check in the host's current call
Evaluated(seen, f) == IF f.due THEN seen \cup {f.rule} ELSE seen

\* history: the tick of the latest call of each rule that passed the throttle
Activated(f) ==
    lastAct' = IF f.due THEN [lastAct EXCEPT ![f.rule] = f.tick] ELSE lastAct

Init ==
    /\ parse = NoParse
    /\ rules \in Programs
    /\ ctx \in Contexts
    /\ pools \in Heaps
    /\ ruleStates = [i \in 1..Len(rules) |-> 0]
    /\ stack = <<>>
    /\ pc = "idle"
    /\ call = NoCall
    /\ last = NoFrame
    /\ lastAct = [i \in 1..Len(rules) |-> -1]
    /\ op = NoOp

\* the host calls ru.RunRule(rule, tick, ctx) on a rule of the list
HostRunRule(i, t) ==
    /\ pc \in {"idle", "returned"}
    /\ pc' = "running"
    /\ stack' = <<Enter(i, t, ruleStates, ctx, pools)>>
    /\ call' = [kind |-> "RunRule", tick |-> t, idx |-> 0, rule |-> i, result |-> "nil",
                visited |-> {}, evaluated |-> Evaluated({}, stack'[1]),
                pools0 |-> pools, states0 |-> ruleStates]
    /\ Activated(stack'[1])
    /\ UNCHANGED <<parse, rules, ctx, pools, ruleStates, last, op>>

\* the host calls ru.Run(rules, tick, ctx)
HostRun(t) ==
    /\ pc \in {"idle", "returned"}
    /\ pc' = "running"
    /\ call' = [kind |-> "Run", tick |-> t, idx |-> 1, rule |-> NoRule, result |-> "nil",
                visited |-> {}, evaluated |-> {}, pools0 |-> pools, states0 |-> ruleStates]
    /\ stack' = <<>>
    /\ UNCHANGED <<parse, rules, ctx, pools, ruleStates, last, lastAct, op>>

InRun == pc = "running" /\ call.kind = "Run" /\ stack = <<>>

\* Run: `if r.Period == 0 { continue }`
RunSkip ==
    /\ InRun
    /\ call.idx <= Len(rules)
    /\ Skipped(rules[call.idx])
    /\ call' = [call EXCEPT !.idx = call.idx + 1]
    /\ UNCHANGED <<parse, rules, ctx, pools, ruleStates, stack, pc, last, lastAct, op>>

\* Run: the call ru.RunRule(r, tick, ctx)
RunCall ==
    /\ InRun
    /\ call.idx <= Len(rules)
    /\ ~Skipped(rules[call.idx])
    /\ stack' = <<Enter(call.idx, call.tick, ruleStates, ctx, pools)>>
    /\ Activated(stack'[1])
    /\ call' = [call EXCEPT !.visited = call.visited \cup {call.idx},
                            !.evaluated = Evaluated(call.evaluated, stack'[1])]
    /\ UNCHANGED <<parse, rules, ctx, pools, ruleStates, pc, last, op>>

\* Run: the range loop is over, `return nil`
RunDone ==
    /\ InRun
    /\ call.idx > Len(rules)
    /\ pc' = "returned"
    /\ call' = [call EXCEPT !.result = "nil"]
    /\ UNCHANGED <<parse, rules, ctx, pools, ruleStates, stack, last, lastAct, op>>

AtLoop == pc = "running" /\ stack # <<>> /\ Top.at = "loop"

\* the pools RunRule goes on with after the call of canRun at the loop head
Checked == canRunPools(rules[Top.rule], ctx, pools)

\* RunRule: `for rounds > 0` is false, `return nil` after the loop
LoopExit ==
    /\ AtLoop
    /\ ~(Top.rounds > 0)
    /\ stack' = SetTop([Top EXCEPT !.at = "ret", !.result = "nil", !.exit = "completed"])
    /\ UNCHANGED <<parse, rules, ctx, pools, ruleStates, pc, call, last, lastAct, op>>

\* RunRule: canRun returned an error, `return err`
CanRunErr ==
    /\ AtLoop
    /\ Top.rounds > 0
    /\ canRun(rules[Top.rule], ctx, pools) = "err"
    /\ stack' = SetTop([Top EXCEPT !.at = "ret", !.result = "err", !.exit = "canRunErr"])
    /\ pools' = Checked
    /\ UNCHANGED <<parse, rules, ctx, ruleStates, pc, call, last, lastAct, op>>

\* a RunRule that calls the fallback on any round in which canRun is false
DelegatesAnyRound(f) == rules[f.rule].OnFail # NoRule

\* whether RunRule, on canRun = false, calls the fallback
Delegates(f) == ~f.runOnce /\ rules[f.rule].OnFail # NoRule

\* RunRule: canRun returned false and there is no fallback call, `return nil`
CanRunFail ==
    /\ AtLoop
    /\ Top.rounds > 0
    /\ canRun(rules[Top.rule], ctx, pools) = "false"
    /\ ~Delegates(Top)
    /\ stack' = SetTop([Top EXCEPT !.at = "ret", !.result = "nil",
                                   !.exit = IF Top.runOnce THEN "canRunFailLater"
                                            ELSE "canRunFailFirst"])
    /\ pools' = Checked
    /\ UNCHANGED <<parse, rules, ctx, ruleStates, pc, call, last, lastAct, op>>

\* RunRule: `return ru.RunRule(rule.OnFail, tick, ctx)`, the call
Fallback ==
    /\ AtLoop
    /\ Top.rounds > 0
    /\ canRun(rules[Top.rule], ctx, pools) = "false"
    /\ Delegates(Top)
    /\ Len(stack) < MaxDepth
    /\ stack' = Append(SetTop([Top EXCEPT !.at = "wait"]),
                       Enter(FallbackCall(Top).rule, FallbackCall(Top).tick,
                             ruleStates, ctx, Checked))
    /\ Activated(stack'[Len(stack')])
    /\ call' = [call EXCEPT !.evaluated = Evaluated(call.evaluated, stack'[Len(stack')])]
    /\ pools' = Checked
    /\ UNCHANGED <<parse, rules, ctx, ruleStates, pc, last, op>>

\* the same call when the recursion has used up the goroutine's stack: the
\* Go runtime ends the process (fatal error: stack overflow)
StackOverflow ==
    /\ AtLoop
    /\ Top.rounds > 0
    /\ canRun(rules[Top.rule], ctx, pools) = "false"
    /\ Delegates(Top)
    /\ Len(stack) >= MaxDepth
    /\ pc' = "crashed"
    /\ pools' = Checked
    /\ UNCHANGED <<parse, rules, ctx, ruleStates, stack, call, last, lastAct, op>>

\* RunRule: canRun returned true; the round runs to `rounds--`
RoundDone ==
    /\ AtLoop
    /\ Top.rounds > 0
    /\ canRun(rules[Top.rule], ctx, pools) = "true"
    /\ ApplyRound(rules[Top.rule], ctx, Checked).status = "ok"
    /\ pools' = ApplyRound(rules[Top.rule], ctx, Checked).heap
    /\ stack' = SetTop([Top EXCEPT !.runOnce = TRUE, !.rounds = Top.rounds - 1,
                                   !.applied = Top.applied + 1])
    /\ UNCHANGED <<parse, rules, ctx, ruleStates, pc, call, last, lastAct, op>>

\* RunRule: canRun returned true; the round ends in one of its `return nil`
RoundAbort ==
    /\ AtLoop
    /\ Top.rounds > 0
    /\ canRun(rules[Top.rule], ctx, pools) = "true"
    /\ ApplyRound(rules[Top.rule], ctx, Checked).status # "ok"
    /\ pools' = ApplyRound(rules[Top.rule], ctx, Checked).heap
    /\ stack' = SetTop([Top EXCEPT !.runOnce = TRUE, !.at = "ret", !.result = "nil",
                                   !.exit = ApplyRound(rules[Top.rule], ctx, Checked).status])
    /\ UNCHANGED <<parse, rules, ctx, ruleStates, pc, call, last, lastAct, op>>

AtRet == pc = "running" /\ stack # <<>> /\ Top.at = "ret"

\* a fallback call whose result is dropped, after which the round loop goes on
AfterFallbackLoop(f, res) == [f EXCEPT !.at = "loop"]

\* `return ru.RunRule(rule.OnFail, tick, ctx)`: the call f, which waited for
\* its fallback, returns the fallback's result
AfterFallback(f, res) == [f EXCEPT !.at = "ret", !.result = res, !.exit = "fallback"]

\* a fallback's RunRule returns into the RunRule that called it, which
\* returns the same result
ReturnToRule ==
    /\ AtRet
    /\ Len(stack) > 1
    /\ ruleStates' = Deferred(ruleStates, Top)
    /\ last' = Top
    /\ stack' = [SubSeq(stack, 1, Len(stack) - 1) EXCEPT
                   ![Len(stack) - 1] = AfterFallback(stack[Len(stack) - 1], Top.result)]
    /\ UNCHANGED <<parse, rules, ctx, pools, pc, call, lastAct, op>>

\* RunRule returns to the host
ReturnToHost ==
    /\ AtRet
    /\ Len(stack) = 1
    /\ call.kind = "RunRule"
    /\ ruleStates' = Deferred(ruleStates, Top)
    /\ last' = Top
    /\ stack' = <<>>
    /\ pc' = "returned"
    /\ call' = [call EXCEPT !.result = Top.result]
    /\ UNCHANGED <<parse, rules, ctx, pools, lastAct, op>>

\* RunRule returns to Run: `if err != nil { return err }`, else the next rule
ReturnToRun ==
    /\ AtRet
    /\ Len(stack) = 1
    /\ call.kind = "Run"
    /\ ruleStates' = Deferred(ruleStates, Top)
    /\ last' = Top
    /\ stack' = <<>>
    /\ pc' = IF AfterRule(Top.result, call.idx).done THEN "returned" ELSE "running"
    /\ call' = [call EXCEPT !.result = AfterRule(Top.result, call.idx).result,
                            !.idx = AfterRule(Top.result, call.idx).idx]
    /\ UNCHANGED <<parse, rules, ctx, pools, lastAct, op>>

Next ==
    \/ \E i \in 1..Len(rules), t \in 0..MaxTick : HostRunRule(i, t)
    \/ \E t \in 0..MaxTick : HostRun(t)
    \/ RunSkip
    \/ RunCall
    \/ RunDone
    \/ LoopExit
    \/ CanRunErr
    \/ CanRunFail
    \/ Fallback
    \/ StackOverflow
    \/ RoundDone
    \/ RoundAbort
    \/ ReturnToRule
    \/ ReturnToHost
    \/ ReturnToRun

Spec == Init /\ [][Next]_vars

\* the steps of a call of Run that is in progress
StepRun ==
    \/ RunSkip
    \/ RunCall
    \/ RunDone
    \/ LoopExit
    \/ CanRunErr
    \/ CanRunFail
    \/ Fallback
    \/ StackOverflow
    \/ RoundDone
    \/ RoundAbort
    \/ ReturnToRule
    \/ ReturnToRun

\* a host that calls Run once per tick it chooses, and never RunRule
NextRun ==
    \/ \E t \in 0..MaxTick : HostRun(t)
    \/ StepRun

\* the goroutine that called Run goes on executing it: a call in progress
\* takes its next step
SpecLive == Init /\ [][NextRun]_vars /\ WF_vars(StepRun)

----------------------------------------------------------------------------
(* The pool primitives called directly by the host. *)

\* capacities and quantities of a pool that holds 0 <= quantity <= capacity
InRangePools == {p \in {Pool(c, q) : c \in 0..MaxCap, q \in 0..MaxCap} : p.Quantity <= p.Capacity}

\* heaps in which pool set A holds at most a pool of iron
PoolHeaps ==
    {[ps \in PoolSetIds |-> IF ps = "A" THEN [EmptyPoolSet EXCEPT !["iron"] = p]
                            ELSE EmptyPoolSet] : p \in InRangePools \cup {NoPool}}

\* the quantities the model follows
MaxQty == 4

Followed(heap) ==
    \A ps \in PoolSetIds, r \in Resources :
        heap[ps][r].Quantity \in -MaxQty..MaxQty

PoolSetArgs == {"A", NilSet}

ResourceArgs == {"iron", NilRes}

QuantityArgs == -MaxArg..MaxArg

InitPool ==
    /\ parse = NoParse
    /\ rules = ProgNetZero
    /\ ctx = CtxSelf
    /\ pools \in PoolHeaps
    /\ ruleStates = [i \in 1..Len(rules) |-> 0]
    /\ stack = <<>>
    /\ pc = "idle"
    /\ call = NoCall
    /\ last = NoFrame
    /\ lastAct = [i \in 1..Len(rules) |-> -1]
    /\ op = NoOp

\* history: the operation the host performs now; for an Add that returns 0
\* the quantity PoolSet.Quantity gave before it (before); and whether the
\* operation before this one was an Add of the same set and resource that
\* returned 0 (afterAdd), the quantity it added and the quantity before it
Performed(name, ps, r, q, ret, only) ==
    LET follows == op.name = "Add" /\ op.ret = 0 /\ op.ps = ps /\ op.r = r IN
    [name |-> name, ps |-> ps, r |-> r, q |-> q, ret |-> ret, addSetOnly |-> only,
     before |-> IF name = "Add" /\ ret = 0 THEN Quantity(pools, ps, r) ELSE 0,
     afterAdd |-> follows,
     added |-> IF follows THEN op.q ELSE 0,
     was |-> IF follows THEN op.before ELSE 0]

PoolAdd(ps, r, q) ==
    /\ pc = "idle"
    /\ pools' = Add(pools, ps, r, q).heap
    /\ Followed(pools')
    /\ op' = Performed("Add", ps, r, q, Add(pools, ps, r, q).ret, op.addSetOnly)
    /\ UNCHANGED <<parse, rules, ctx, ruleStates, stack, pc, call, last, lastAct>>

PoolSet(ps, r, q) ==
    /\ pc = "idle"
    /\ pools' = Set(pools, ps, r, q).heap
    /\ Followed(pools')
    /\ op' = Performed("Set", ps, r, q, Set(pools, ps, r, q).ret, op.addSetOnly)
    /\ UNCHANGED <<parse, rules, ctx, ruleStates, stack, pc, call, last, lastAct>>

PoolRemove(ps, r, q) ==
    /\ pc = "idle"
    /\ pools' = Remove(pools, ps, r, q).heap
    /\ Followed(pools')
    /\ op' = Performed("Remove", ps, r, q, Remove(pools, ps, r, q).ret, FALSE)
    /\ UNCHANGED <<parse, rules, ctx, ruleStates, stack, pc, call, last, lastAct>>

\* a call that panics: the host program stops, no pool has changed
Panic(name, ps, r, q) ==
    /\ pc' = "crashed"
    /\ op' = Performed(name, ps, r, q, 0, FALSE)
    /\ UNCHANGED <<parse, rules, ctx, pools, ruleStates, stack, call, last, lastAct>>

\* PoolSet.SetCapacity: the write p[r] = ... panics on a nil PoolSet
\* (assignment to entry in nil map); on a pool found in a PoolSet that is not
\* nil the capacity is assigned
PoolSetCapacity(ps, r, c) ==
    /\ pc = "idle"
    /\ IF ps = NilSet
       THEN Panic("SetCapacity", ps, r, c)
       ELSE /\ pools' = SetCapacity(pools, ps, r, c)
            /\ op' = Performed("SetCapacity", ps, r, c, 0, FALSE)
            /\ UNCHANGED <<parse, rules, ctx, ruleStates, stack, pc, call, last, lastAct>>

\* PoolSet.AddPool: panics on a nil resource ("nil resource supplied") and on
\* a nil PoolSet (assignment to entry in nil map); else replaces the pool of r
PoolAddPool(ps, r, capacity, quantity) ==
    /\ pc = "idle"
    /\ IF r = NilRes \/ ps = NilSet
       THEN Panic("AddPool", ps, r, quantity)
       ELSE /\ pools' = AddPool(pools, ps, r, capacity, quantity)
            /\ op' = Performed("AddPool", ps, r, quantity, 0, FALSE)
            /\ UNCHANGED <<parse, rules, ctx, ruleStates, stack, pc, call, last, lastAct>>

NextPool ==
    \/ \E ps \in PoolSetArgs, r \in ResourceArgs, q \in QuantityArgs : PoolAdd(ps, r, q)
    \/ \E ps \in PoolSetArgs, r \in ResourceArgs, q \in QuantityArgs : PoolSet(ps, r, q)
    \/ \E ps \in PoolSetArgs, r \in ResourceArgs, q \in QuantityArgs : PoolRemove(ps, r, q)
    \/ \E ps \in PoolSetArgs, r \in ResourceArgs, c \in 0..MaxCap : PoolSetCapacity(ps, r, c)
    \/ \E ps \in PoolSetArgs, r \in ResourceArgs, c \in 0..MaxCap, q \in QuantityArgs :
          PoolAddPool(ps, r, c, q)

SpecPool == InitPool /\ [][NextPool]_vars

----------------------------------------------------------------------------
(* BenchmarkRunRule: Run at the ticks 0, 1, 2, ... on a rule that takes and *)
(* gives the same quantity of one resource.                                 *)

\* the benchmark's rule file with quantity n in place of 1
ProgNetZeroOf(n) ==
    << [NewRule("test") EXCEPT
          !.Inputs = <<Specifier(RelationSelf, "iron_ore", n)>>,
          !.Outputs = <<Specifier(RelationSelf, "iron_ore", n)>>] >>

\* heaps in which pool set A holds a pool of iron_ore alone, with
\* n <= quantity <= capacity
NetZeroHeaps(n) ==
    {[ps \in PoolSetIds |-> IF ps = "A" THEN [EmptyPoolSet EXCEPT !["iron_ore"] = p]
                            ELSE EmptyPoolSet] : p \in {x \in InRangePools : x.Quantity >= n}}

InitNetZero ==
    /\ parse = NoParse
    /\ \E n \in 0..MaxArg : rules = ProgNetZeroOf(n) /\ pools \in NetZeroHeaps(n)
    /\ ctx = CtxSelf
    /\ ruleStates = [i \in 1..Len(rules) |-> 0]
    /\ stack = <<>>
    /\ pc = "idle"
    /\ call = NoCall
    /\ last = NoFrame
    /\ lastAct = [i \in 1..Len(rules) |-> -1]
    /\ op = NoOp

\* the benchmark's loop: runner.Run(rules, int64(i), ctx) for i = 0, 1, 2, ...
HostRunInOrder ==
    LET i == IF pc = "idle" THEN 0 ELSE call.tick + 1 IN
    /\ i <= MaxTick
    /\ HostRun(i)

NextNetZero ==
    \/ HostRunInOrder
    \/ RunCall
    \/ RunDone
    \/ LoopExit
    \/ RoundDone
    \/ ReturnToRun

SpecNetZero == InitNetZero /\ [][NextNetZero]_vars

----------------------------------------------------------------------------
(* RuleParser.Parse: the resolution of onfail names. *)

\* a rule file has at most MaxBlocks rule blocks
MaxBlocks == 3

\* the names rule blocks and onfail directives use
RuleNames == {"a", "b", "c"}

\* a rule block: its name and the argument of its onfail directive ("" when
\* the block has none)
Block(name, onfail) == [Name |-> name, onFailRuleName |-> onfail]

Blocks == {Block(name, onfail) : name \in RuleNames, onfail \in RuleNames \cup {""}}

RECURSIVE FilesOfLength(_)
FilesOfLength(n) ==
    IF n = 0 THEN {<<>>}
    ELSE {Append(f, b) : f \in FilesOfLength(n - 1), b \in Blocks}

RuleFiles == UNION {FilesOfLength(n) : n \in 0..MaxBlocks}

\* a lookup among the blocks read before block i only
RuleIndexSoFar(file, i, name) ==
    IF \E k \in 1..(i - 1) : file[k].Name = name
    THEN CHOOSE k \in 1..(i - 1) :
            file[k].Name = name /\ \A j \in 1..(i - 1) : file[j].Name = name => j <= k
    ELSE NoRule

\* ruleIndex[name] when block i is resolved: every block has been read, and
\* a later block of a name has replaced an earlier one (NoRule: no such key)
RuleIndex(file, i, name) ==
    IF \E k \in 1..Len(file) : file[k].Name = name
    THEN CHOOSE k \in 1..Len(file) :
            file[k].Name = name /\ \A j \in 1..Len(file) : file[j].Name = name => j <= k
    ELSE NoRule

\* the second loop of Parse from block k on: rules is what Parse returns
\* (nil with an error), err the name the error message starts with
RECURSIVE ResolveOnFail(_, _, _)
ResolveOnFail(file, k, acc) ==
    IF k > Len(file) THEN [rules |-> acc, err |-> ""]
    ELSE IF file[k].onFailRuleName = ""
    THEN ResolveOnFail(file, k + 1, Append(acc, NewRule(file[k].Name)))
    ELSE IF RuleIndex(file, k, file[k].onFailRuleName) = NoRule
    THEN [rules |-> <<>>, err |-> file[k].Name]
    ELSE ResolveOnFail(file, k + 1,
             Append(acc, [NewRule(file[k].Name) EXCEPT
                            !.OnFail = RuleIndex(file, k, file[k].onFailRuleName)]))

InitParse ==
    /\ parse \in {[file |-> f, state |-> "read", err |-> ""] : f \in RuleFiles}
    /\ rules = <<>>
    /\ ctx = CtxSelf
    /\ pools = HeapRich
    /\ ruleStates = <<>>
    /\ stack = <<>>
    /\ pc = "idle"
    /\ call = NoCall
    /\ last = NoFrame
    /\ lastAct = <<>>
    /\ op = NoOp

\* rules, err := p.Parse(r)
Parse ==
    /\ parse.state = "read"
    /\ rules' = ResolveOnFail(parse.file, 1, <<>>).rules
    /\ parse' = [parse EXCEPT !.state = "done",
                              !.err = ResolveOnFail(parse.file, 1, <<>>).err]
    /\ UNCHANGED <<ctx, pools, ruleStates, stack, pc, call, last, lastAct, op>>

NextParse == Parse

SpecParse == InitParse /\ [][NextParse]_vars

----------------------------------------------------------------------------
(* Properties of RunRule, stated on the call that is about to return. *)

\* a RunRule call is about to return
Returning == pc = "running" /\ stack # <<>> /\ Top.at = "ret"

\* the heap after k complete rounds of the rule (every input removed, every
\* output added, every set applied)
RECURSIVE RoundsApplied(_, _, _, _)
RoundsApplied(rule, c, heap, k) ==
    IF k = 0 THEN heap ELSE RoundsApplied(rule, c, ApplyRound(rule, c, heap).heap, k - 1)

\* the exits of RunRule at which a round stopped between its effects
AbortExits == {"noInputSet", "notEnough", "noOutputSet", "noSetSet"}

\* the rules reachable from rule i by following onfail references
RECURSIVE OnFailChain(_, _)
OnFailChain(i, seen) ==
    IF rules[i].OnFail = NoRule \/ rules[i].OnFail \in seen THEN seen
    ELSE OnFailChain(rules[i].OnFail, seen \cup {rules[i].OnFail})

\* C1: each round of RunRule is all-or-nothing: when a RunRule call that did
\* not delegate returns, the pools are the pools it started from with k
\* complete rounds applied, k the number of rounds it completed.
C1_RoundAllOrNothing ==
    (Returning /\ Top.due /\ Top.exit # "fallback") =>
        pools = RoundsApplied(rules[Top.rule], ctx, Top.heap0, Top.applied)

\* C2: period throttle: a call of a rule with period P >= 1 that passes the
\* throttle check comes at least P ticks after the rule's previous activation,
\* and a call that is not due changes no pool and not the rule's lastRun.
C2_PeriodThrottle ==
    [][ /\ (Len(stack') = Len(stack) + 1) =>
              LET f == stack'[Len(stack')] IN
              (f.due /\ rules[f.rule].Period >= 1 /\ lastAct[f.rule] # -1) =>
                  f.tick - lastAct[f.rule] >= rules[f.rule].Period
        /\ (Returning /\ Top.exit = "notDue") =>
              /\ pools = Top.heap0
              /\ pools' = pools
              /\ ruleStates'[Top.rule] = Top.state ]_vars

\* the same for the rules that no onfail chain leads back to
C2_ThrottleOffCycle ==
    [][ (Len(stack') = Len(stack) + 1) =>
          LET f == stack'[Len(stack')] IN
          (/\ f.due
           /\ rules[f.rule].Period >= 1
           /\ lastAct[f.rule] # -1
           /\ f.rule \notin OnFailChain(f.rule, {})) =>
              f.tick - lastAct[f.rule] >= rules[f.rule].Period ]_vars

\* C3: fallback delegation: a due call whose first canRun fails and whose
\* rule has an onfail target calls RunRule on that target with its own tick
\* and applies no round; it returns what the fallback returned; and a
\* fallback that is not due by its own period and lastRun leaves the pools as
\* the call found them.
C3_FallbackDelegation ==
    /\ [][ (/\ AtLoop
            /\ Top.rounds > 0
            /\ ~Top.runOnce
            /\ rules[Top.rule].OnFail # NoRule
            /\ canRun(rules[Top.rule], ctx, pools) = "false") =>
              /\ pools' = pools
              /\ \/ pc' = "crashed"
                 \/ /\ Len(stack') = Len(stack) + 1
                    /\ stack'[Len(stack)].at = "wait"
                    /\ stack'[Len(stack')].rule = rules[Top.rule].OnFail
                    /\ stack'[Len(stack')].tick = Top.tick ]_vars
    /\ [](/\ \A k \in 1..Len(stack) :
                stack[k].at = "wait" =>
                    /\ k < Len(stack)
                    /\ rules[stack[k].rule].OnFail # NoRule
                    /\ stack[k + 1].rule = rules[stack[k].rule].OnFail
                    /\ stack[k + 1].tick = stack[k].tick
                    /\ stack[k + 1].heap0 = stack[k].heap0
                    /\ stack[k].applied = 0
          /\ (Returning /\ Top.exit = "fallback") =>
                /\ Top.applied = 0
                /\ last.rule = rules[Top.rule].OnFail
                /\ last.tick = Top.tick
                /\ Top.result = last.result
                /\ last.heap0 = Top.heap0
                /\ ~last.due => (pools = Top.heap0 /\ last.exit = "notDue")
                /\ last.due <=> ~NotDue(rules[last.rule], last.state, last.tick))

\* a fallback that was due and applied a round returns into the delegating call
C3_Witness ==
    /\ Returning
    /\ Top.exit = "fallback"
    /\ last.due
    /\ last.applied > 0
    /\ pools # Top.heap0

\* C6: a RunRule call that reaches an input, output or set specifier whose
\* relation the context lacks returns an error, and so does the Run around it.
C6_MissingRelationIsError ==
    /\ (Returning /\ Top.exit \in AbortExits \ {"notEnough"}) => Top.result = "err"
    /\ (pc = "returned" /\ last.exit \in AbortExits \ {"notEnough"}) => call.result = "err"

\* C7 as stated: when Run returns the error of the rule at position idx, no
\* rule after idx was evaluated in this call.
C7_NoLaterRuleEvaluated ==
    (pc = "returned" /\ call.kind = "Run" /\ call.result = "err") =>
        \A j \in (call.idx + 1)..Len(rules) :
            j \notin call.evaluated /\ ruleStates[j] = call.states0[j]

\* C7: Run is fail-fast without rollback: the step in which RunRule returns
\* an error to Run is the step in which Run returns that error, it changes no
\* pool, and Run has called no rule after that position from the list; a
\* rule after it was evaluated in this call only when a chain of onfail
\* references, of one step or more, leads to it from a rule that Run called
\* from the list at or before that position.
C7_RunFailFast ==
    /\ [][ (Returning /\ Len(stack) = 1 /\ call.kind = "Run" /\ Top.result = "err") =>
              /\ pc' = "returned"
              /\ call'.result = "err"
              /\ call'.idx = call.idx
              /\ pools' = pools ]_vars
    /\ [](pc \in {"running", "returned"} /\ call.kind = "Run" =>
              /\ call.visited \subseteq 1..call.idx
              /\ (pc = "returned" /\ call.result = "err") =>
                    /\ last.result = "err"
                    /\ call.idx \in call.visited
                    /\ \A j \in ((call.idx + 1)..Len(rules)) \cap call.evaluated :
                          \E i \in call.visited : j \in OnFailChain(i, {}))

\* Run returned an error after an earlier rule of the list had changed a
\* pool through an onfail chain of two steps: a rule after the erroring one
\* got its lastRun in this call and is the onfail of no rule Run had called
C7_Witness ==
    /\ pc = "returned"
    /\ call.kind = "Run"
    /\ call.result = "err"
    /\ call.idx > 1
    /\ call.idx < Len(rules)
    /\ pools # call.pools0
    /\ \E j \in (call.idx + 1)..Len(rules) :
          /\ j \in call.evaluated
          /\ ruleStates[j] # call.states0[j]
          /\ \A i \in call.visited : rules[i].OnFail # j

\* Run returned an error after an earlier rule of the list had changed a pool
C7_ErrorAfterMutation ==
    /\ pc = "returned"
    /\ call.kind = "Run"
    /\ call.result = "err"
    /\ call.idx > 1
    /\ call.idx < Len(rules)
    /\ pools # call.pools0

\* C8: every RunRule call that passed the throttle check leaves the rule's
\* lastRun equal to its tick when it returns, whatever exit it took.
C8_LastRunOnEveryExit ==
    (last.rule # NoRule /\ last.due) => ruleStates[last.rule] = last.tick

\* a call that ended with canRun's error has set lastRun to its tick
C8_Witness ==
    /\ last.rule # NoRule
    /\ last.due
    /\ last.exit = "canRunErr"
    /\ last.state # last.tick
    /\ ruleStates[last.rule] = last.tick

\* the rounds a call began: those it completed and the one that stopped midway
RoundsStarted(f) == f.applied + (IF f.exit \in AbortExits THEN 1 ELSE 0)

\* the exits of a call that passed the throttle check
DueExits ==
    {"completed", "canRunFailFirst", "canRunFailLater", "canRunErr", "fallback",
     "noRepeatSet"} \cup AbortExits

\* C9: fixed repeat: a due call with fixed repeat count N >= 0 applies at
\* most N+1 rounds, and exactly N+1 when the preconditions and inputs were
\* satisfiable before each of them, that is unless canRun failed or a Remove
\* found too little.
C9_ExactUnlessCanRunFails ==
    (/\ Returning
     /\ Top.due
     /\ ~rules[Top.rule].RepeatFrom.set
     /\ rules[Top.rule].Repeat >= 0) =>
        /\ RoundsStarted(Top) <= rules[Top.rule].Repeat + 1
        /\ Top.exit \in {"completed", "noOutputSet", "noSetSet"} =>
              Top.applied = rules[Top.rule].Repeat + 1

\* what the code does keep of the fixed repeat: a due call with fixed repeat
\* count N >= 0 applies at most N+1 rounds, and exactly N+1 when and only
\* when it leaves the round loop by exhausting the count.
C9_FixedRepeat ==
    (/\ Returning
     /\ Top.due
     /\ ~rules[Top.rule].RepeatFrom.set
     /\ rules[Top.rule].Repeat >= 0) =>
        /\ RoundsStarted(Top) <= rules[Top.rule].Repeat + 1
        /\ Top.exit \in DueExits
        /\ Top.exit = "completed" <=> Top.applied = rules[Top.rule].Repeat + 1

\* a call with repeat 2 returns after three rounds
C9_Witness ==
    /\ Returning
    /\ Top.exit = "completed"
    /\ rules[Top.rule].Repeat = 2
    /\ Top.applied = 3

\* C10: a due call with dynamic repeat source (rel, res) applies at most n
\* rounds, n the quantity of res in ctx[rel] when the call started; none when
\* res has no pool there; none, and no error, when rel is not in the context.
C10_DynamicRepeat ==
    (Returning /\ Top.due /\ rules[Top.rule].RepeatFrom.set) =>
        LET src == rules[Top.rule].RepeatFrom IN
        IF ctx[src.Relation] = NoSet
        THEN RoundsStarted(Top) = 0 /\ Top.result = "nil" /\ pools = Top.heap0
        ELSE /\ RoundsStarted(Top) <= Quantity(Top.heap0, ctx[src.Relation], src.Resource)
             /\ ~HasPool(Top.heap0, ctx[src.Relation], src.Resource) => RoundsStarted(Top) = 0

\* a call applied as many rounds as its source held at the start, and the
\* source holds another quantity now
C10_Witness ==
    /\ Returning
    /\ Top.due
    /\ rules[Top.rule].RepeatFrom.set
    /\ ctx[rules[Top.rule].RepeatFrom.Relation] # NoSet
    /\ Top.applied = 2
    /\ Quantity(pools, ctx[rules[Top.rule].RepeatFrom.Relation],
                rules[Top.rule].RepeatFrom.Resource) = 0

\* C11: Run never evaluates a period-0 rule from its list position: the step
\* of Run at such a rule changes no pool and no lastRun and calls nothing;
\* during Run a period-0 rule is evaluated only in a call that another rule
\* made to it as its onfail target.
C11_PeriodZeroOnlyAsFallback ==
    /\ [][ (InRun /\ call.idx <= Len(rules) /\ rules[call.idx].Period = 0) =>
              /\ pools' = pools
              /\ ruleStates' = ruleStates
              /\ stack' = <<>>
              /\ call'.idx = call.idx + 1
              /\ call'.evaluated = call.evaluated ]_vars
    /\ [](call.kind = "Run" =>
              /\ \A i \in call.visited : rules[i].Period # 0
              /\ \A j \in call.evaluated :
                    rules[j].Period = 0 => \E i \in call.visited : j \in OnFailChain(i, {})
              /\ \A k \in 1..Len(stack) :
                    rules[stack[k].rule].Period = 0 =>
                        /\ k > 1
                        /\ stack[k - 1].at = "wait"
                        /\ rules[stack[k - 1].rule].OnFail = stack[k].rule)

\* a Run returned in which a period-0 rule, not called from the list, changed
\* the pools and got its lastRun set as the fallback of another rule
C11_Witness ==
    /\ pc = "returned"
    /\ call.kind = "Run"
    /\ pools # call.pools0
    /\ \E j \in call.evaluated :
          /\ rules[j].Period = 0
          /\ j \notin call.visited
          /\ ruleStates[j] = call.tick
          /\ call.states0[j] # call.tick

\* C12: canRun has no effect on state: a step of RunRule in which canRun
\* returned false or an error changes no pool and no lastRun, a round that
\* follows canRun = true starts from the pools canRun was called with, and a
\* due call of a rule without onfail whose first canRun returned false
\* returns with the pools and the lastRun it started from.
C12_CanRunReadsOnly ==
    /\ [][ (AtLoop /\ Top.rounds > 0) =>
              /\ ruleStates' = ruleStates
              /\ IF canRun(rules[Top.rule], ctx, pools) = "true"
                 THEN pools' = ApplyRound(rules[Top.rule], ctx, pools).heap
                 ELSE pools' = pools ]_vars
    /\ []((Returning /\ Top.exit = "canRunFailFirst") =>
              /\ Top.due
              /\ rules[Top.rule].OnFail = NoRule
              /\ Top.applied = 0
              /\ Top.result = "nil"
              /\ pools = Top.heap0
              /\ ruleStates[Top.rule] = Top.state)

\* a call returns after its first canRun found the first of two inputs
\* available and the second not
C12_Witness ==
    /\ Returning
    /\ Top.exit = "canRunFailFirst"
    /\ Len(rules[Top.rule].Inputs) = 2
    /\ rules[Top.rule].Inputs[1].Quantity > 0
    /\ ctx[rules[Top.rule].Inputs[1].Relation] # NoSet
    /\ Quantity(pools, ctx[rules[Top.rule].Inputs[1].Relation],
                rules[Top.rule].Inputs[1].Resource) >= rules[Top.rule].Inputs[1].Quantity

\* C15: check then apply: whenever canRun returns true for a round, every
\* input Remove of that round returns 0, so that no RunRule call leaves by
\* the "not enough resource" branch of the input loop.
C15_CheckThenApply ==
    /\ (AtLoop /\ Top.rounds > 0 /\ canRun(rules[Top.rule], ctx, pools) = "true") =>
           RemoveInputs(rules[Top.rule].Inputs, 1, ctx, Checked).status = "ok"
    /\ Returning => Top.exit # "notEnough"

\* C16: the onfail rule is invoked only for a first-round failure: when
\* canRun returns false after at least one round of the call was applied,
\* the call invokes nothing and returns nil, and the pools keep the effects
\* of the rounds applied before.
C16_FallbackOnlyFirstRound ==
    /\ [][ (/\ AtLoop
            /\ Top.rounds > 0
            /\ Top.runOnce
            /\ canRun(rules[Top.rule], ctx, pools) = "false") =>
              /\ Len(stack') = Len(stack)
              /\ stack'[Len(stack)].at = "ret"
              /\ stack'[Len(stack)].result = "nil"
              /\ pools' = pools ]_vars
    /\ [](/\ \A k \in 1..Len(stack) :
                stack[k].at = "wait" => (stack[k].applied = 0 /\ ~stack[k].runOnce)
          /\ (Returning /\ Top.exit = "canRunFailLater") =>
                /\ Top.applied >= 1
                /\ Top.result = "nil"
                /\ pools = RoundsApplied(rules[Top.rule], ctx, Top.heap0, Top.applied))

\* a rule with an onfail target returns after canRun failed on its second
\* round, with the first round's effects in the pools
C16_Witness ==
    /\ Returning
    /\ Top.exit = "canRunFailLater"
    /\ rules[Top.rule].OnFail # NoRule
    /\ Top.applied = 1
    /\ Top.rounds = 1
    /\ pools # Top.heap0

\* no onfail chain leads back to the rule it starts from
Acyclic == \A i \in 1..Len(rules) : i \notin OnFailChain(i, {})

\* C17: with an acyclic onfail graph, a rule with period >= 1 passes the
\* throttle check in at most one RunRule call per Run call, whether Run
\* reaches it first from the list or first as a fallback: a call of a rule
\* already evaluated in this Run is not due, and once the evaluating call has
\* returned the rule's lastRun is the tick of the Run.
C17_OneActivationPerRun ==
    /\ [][ (/\ pc = "running"
            /\ call.kind = "Run"
            /\ Acyclic
            /\ Len(stack') = Len(stack) + 1) =>
              LET f == stack'[Len(stack')] IN
              (rules[f.rule].Period >= 1 /\ f.rule \in call.evaluated) =>
                  (~f.due /\ f.exit = "notDue" /\ f.at = "ret") ]_vars
    /\ []((pc \in {"running", "returned"} /\ call.kind = "Run" /\ Acyclic) =>
              \A i \in call.evaluated :
                  rules[i].Period >= 1 =>
                      \/ ruleStates[i] = call.tick
                      \/ \E k \in 1..Len(stack) : stack[k].rule = i /\ stack[k].due)

\* Run calls from the list a rule that changed the pools earlier in the same
\* Run as the fallback of another rule, and the call is not due
C17_Witness ==
    /\ Returning
    /\ call.kind = "Run"
    /\ Acyclic
    /\ Len(stack) = 1
    /\ Top.exit = "notDue"
    /\ rules[Top.rule].Period >= 1
    /\ Top.rule \in call.evaluated
    /\ call.states0[Top.rule] # call.tick
    /\ pools # call.pools0

\* Run evaluated a rule from the list, and a later rule's fallback call of
\* it is not due
C17_ListThenFallback ==
    /\ Returning
    /\ call.kind = "Run"
    /\ Acyclic
    /\ Len(stack) = 2
    /\ Top.exit = "notDue"
    /\ rules[Top.rule].Period >= 1
    /\ Top.rule \in call.visited \cap call.evaluated
    /\ call.states0[Top.rule] # call.tick

\* C18: re-entry through an onfail cycle is throttled: a RunRule call of a
\* rule that an enclosing call is still evaluating is not due, and the
\* top-level call returns (the recursion does not exhaust the stack).
C18_CycleReentryThrottled ==
    /\ \A j \in 1..Len(stack), k \in 1..Len(stack) :
          (j < k /\ stack[j].rule = stack[k].rule /\ stack[j].due) => ~stack[k].due
    /\ pc # "crashed"

\* C19: termination: with an acyclic onfail graph every call of Run returns; the round loop of a call counts its rounds down from the
\* initial count, and the nested fallback calls are calls of distinct rules
\* along one onfail chain.
C19_Termination ==
    /\ (pc = "running" /\ Acyclic) ~> (pc = "returned")
    /\ [](/\ \A k \in 1..Len(stack) :
                /\ stack[k].rounds >= 0
                /\ stack[k].applied + stack[k].rounds = stack[k].rounds0
          /\ Acyclic =>
                /\ pc # "crashed"
                /\ \A j \in 1..Len(stack), k \in 1..Len(stack) :
                      j < k => stack[k].rule \in OnFailChain(stack[j].rule, {}) \ {stack[j].rule})

\* a Run over several rules returned nil after a rule of it had delegated
\* to a fallback that Run did not call from the list, and the pools changed
C19_Witness ==
    /\ pc = "returned"
    /\ call.kind = "Run"
    /\ call.result = "nil"
    /\ Acyclic
    /\ call.idx = Len(rules) + 1
    /\ call.evaluated \ call.visited # {}
    /\ pools # call.pools0

\* the call f passed the throttle check and found quantity 0, or no pool,
\* at its dynamic repeat source
ZeroRounds(f) ==
    /\ f.rule # NoRule
    /\ f.due
    /\ rules[f.rule].RepeatFrom.set
    /\ ctx[rules[f.rule].RepeatFrom.Relation] # NoSet
    /\ Quantity(f.heap0, ctx[rules[f.rule].RepeatFrom.Relation],
                rules[f.rule].RepeatFrom.Resource) = 0

\* C20: a due call whose round count is 0 evaluates no precondition, applies
\* no effect, does not call the rule's onfail target and returns nil, also
\* when a precondition is false or names a relation the context lacks; the
\* rule's lastRun is set to the tick.
C20_ZeroRounds ==
    /\ \A k \in 1..Len(stack) :
          ZeroRounds(stack[k]) =>
              /\ k = Len(stack)
              /\ stack[k].rounds0 = 0
              /\ stack[k].applied = 0
              /\ stack[k].at \in {"loop", "ret"}
              /\ stack[k].exit = (IF stack[k].at = "ret" THEN "completed" ELSE "none")
              /\ stack[k].result = "nil"
              /\ pools = stack[k].heap0
    /\ ZeroRounds(last) =>
          /\ last.exit = "completed"
          /\ last.result = "nil"
          /\ ruleStates[last.rule] = last.tick

\* a call with round count 0 returns nil although its rule has an onfail
\* target and a precondition on a relation the context lacks
C20_Witness ==
    /\ Returning
    /\ ZeroRounds(Top)
    /\ rules[Top.rule].OnFail # NoRule
    /\ canRun(rules[Top.rule], ctx, pools) = "err"
    /\ Top.result = "nil"
    /\ Top.state # Top.tick

\* a call with round count 0 returned nil, and set lastRun, although its rule
\* has an onfail target and a precondition that is false
C20_FalsePrecondition ==
    /\ pc = "returned"
    /\ ZeroRounds(last)
    /\ rules[last.rule].OnFail # NoRule
    /\ canRun(rules[last.rule], ctx, pools) = "false"
    /\ last.state # last.tick
    /\ ruleStates[last.rule] = last.tick

\* C21: a rule the runner has never evaluated has lastRun 0: a call of a
\* rule with period P >= 1 at a tick t < P is not due, and it returns nil
\* without a change of a pool or of a lastRun; so the first call of the rule
\* that passes the throttle check has a tick >= P.
C21_NeverRunIsLastRunZero ==
    /\ [][ (Len(stack') = Len(stack) + 1) =>
              LET f == stack'[Len(stack')] IN
              (lastAct[f.rule] = -1 /\ rules[f.rule].Period >= 1) =>
                  /\ f.state = 0
                  /\ (f.due <=> f.tick >= rules[f.rule].Period)
                  /\ (~f.due => (f.at = "ret" /\ f.exit = "notDue" /\ f.result = "nil")) ]_vars
    /\ [][ (Returning /\ Top.exit = "notDue") =>
              (pools' = pools /\ ruleStates' = ruleStates /\ lastAct' = lastAct) ]_vars
    /\ [](\A i \in 1..Len(rules) :
              /\ lastAct[i] = -1 => ruleStates[i] = 0
              /\ (lastAct[i] # -1 /\ rules[i].Period >= 1) => lastAct[i] >= rules[i].Period)

\* a period-1 rule that has never run and could run is called at tick 0 and
\* returns as not due
C21_Witness ==
    /\ Returning
    /\ Top.exit = "notDue"
    /\ Top.tick = 0
    /\ rules[Top.rule].Period = 1
    /\ lastAct[Top.rule] = -1
    /\ canRun(rules[Top.rule], ctx, pools) = "true"

\* C22: the lastRun of a rule with period >= 0 never decreases, whatever
\* ticks the host passes to Run and RunRule: it changes only when a call of
\* the rule that passed the throttle check returns, to the tick of that call,
\* which is the tick the host passed; so it is 0 or the tick of an earlier
\* call.
C22_LastRunMonotone ==
    /\ [][ \A i \in 1..Len(rules) :
              rules[i].Period >= 0 =>
                  /\ ruleStates'[i] >= ruleStates[i]
                  /\ ruleStates'[i] # ruleStates[i] =>
                        /\ Returning
                        /\ Top.rule = i
                        /\ Top.due
                        /\ ruleStates'[i] = Top.tick ]_vars
    /\ [](/\ \A k \in 1..Len(stack) : stack[k].tick = call.tick
          /\ \A i \in 1..Len(rules) :
                \/ ruleStates[i] = 0
                \/ lastAct[i] # -1 /\ ruleStates[i] <= lastAct[i])

\* the host called a period-0 rule with a tick before the rule's lastRun, and
\* the call returned with lastRun as it was
C22_Witness ==
    /\ pc = "returned"
    /\ last.rule # NoRule
    /\ rules[last.rule].Period = 0
    /\ last.exit = "notDue"
    /\ last.tick < last.state
    /\ ruleStates[last.rule] = last.state

\* the smaller of two integers
Min(a, b) == IF a < b THEN a ELSE b

\* the specifier names the pool of resource r in pool set ps
Names(spec, ps, r) == ctx[spec.Relation] = ps /\ spec.Resource = r

\* the step completes a round of the call on top of the stack
CompletesRound ==
    /\ AtLoop
    /\ Len(stack') = Len(stack)
    /\ stack'[Len(stack)].applied = Top.applied + 1

\* C23: effect ordering within a round: the inputs are removed, then the
\* outputs are added, then the sets are applied, each list in declared
\* order; so a pool that the rule's only set and one of its outputs name
\* holds, after the round, the set quantity cut to the pool's capacity,
\* whatever the output adds; and a pool that the rule's only input, one of
\* its outputs and none of its sets name holds the quantity less the input
\* plus the output, cut to the capacity.
C23_EffectOrder ==
    [][ CompletesRound =>
          LET rule == rules[Top.rule] IN
          /\ pools' =
                ApplySets(rule.Sets, 1, ctx,
                    AddOutputs(rule.Outputs, 1, ctx,
                        RemoveInputs(rule.Inputs, 1, ctx, pools).heap).heap).heap
          /\ \A ps \in PoolSetIds, r \in Resources :
                (/\ pools[ps][r].ok
                 /\ Len(rule.Sets) = 1
                 /\ Names(rule.Sets[1], ps, r)
                 /\ \E k \in 1..Len(rule.Outputs) : Names(rule.Outputs[k], ps, r)) =>
                    pools'[ps][r].Quantity = Min(rule.Sets[1].Quantity, pools[ps][r].Capacity)
          /\ \A ps \in PoolSetIds, r \in Resources :
                (/\ pools[ps][r].ok
                 /\ Len(rule.Inputs) = 1
                 /\ Names(rule.Inputs[1], ps, r)
                 /\ Cardinality({k \in 1..Len(rule.Outputs) : Names(rule.Outputs[k], ps, r)}) = 1
                 /\ \A k \in 1..Len(rule.Sets) : ~Names(rule.Sets[k], ps, r)) =>
                    \E k \in 1..Len(rule.Outputs) :
                        /\ Names(rule.Outputs[k], ps, r)
                        /\ pools'[ps][r].Quantity =
                              Min(pools[ps][r].Quantity - rule.Inputs[1].Quantity
                                      + rule.Outputs[k].Quantity,
                                  pools[ps][r].Capacity) ]_vars

\* a round is complete of a rule with an output of 2 and a set to 1 on the
\* pool of workers, which held 0, and an input and an output of 1 on the
\* pool of iron, which was full: workers holds 1 and iron is full again
C23_Witness ==
    /\ Returning
    /\ Top.exit = "completed"
    /\ Top.applied = 1
    /\ rules = ProgOrder
    /\ Top.heap0["A"]["workers"].Quantity = 0
    /\ pools["A"]["workers"].Quantity = 1
    /\ Top.heap0["A"]["iron"].Quantity = Top.heap0["A"]["iron"].Capacity
    /\ pools["A"]["iron"].Quantity = pools["A"]["iron"].Capacity

----------------------------------------------------------------------------
(* Properties of the pool primitives. *)

\* C4: pool bounds: after any sequence of Add and Set calls on pools that
\* started with 0 <= quantity <= capacity, every pool holds
\* 0 <= quantity <= capacity.
C4_PoolBounds ==
    op.addSetOnly =>
        \A ps \in PoolSetIds, r \in Resources :
            pools[ps][r].ok =>
                0 <= pools[ps][r].Quantity /\ pools[ps][r].Quantity <= pools[ps][r].Capacity

\* C5: Remove(r, q) is atomic: when the set or the resource is nil, the
\* resource has no pool or the quantity is less than q, no pool changes and q
\* is returned; otherwise the quantity decreases by q and 0 is returned.
C5_RemoveAtomic ==
    [][ op'.name = "Remove" =>
        \A ps \in {op'.ps}, r \in {op'.r}, q \in {op'.q} :
          PoolRemove(ps, r, q) =>
              IF ps = NilSet \/ r = NilRes \/ ~pools[ps][r].ok \/ pools[ps][r].Quantity < q
              THEN pools' = pools /\ op'.ret = q
              ELSE /\ op'.ret = 0
                   /\ pools' = [pools EXCEPT ![ps][r].Quantity = pools[ps][r].Quantity - q] ]_vars

\* a Remove of more than the pool holds returned q and left what the pool held
C5_Witness ==
    /\ op.name = "Remove"
    /\ op.ps # NilSet
    /\ op.r # NilRes
    /\ op.ret = op.q
    /\ op.q > pools[op.ps][op.r].Quantity
    /\ pools[op.ps][op.r].Quantity > 0

\* an Add that returned 0 was followed at once by a Remove of the same
\* quantity of the same resource in the same pool set
AddThenRemove == op.name = "Remove" /\ op.afterAdd /\ op.added = op.q

\* C13: round trip: when Add(r, q) returned 0, a Remove(r, q) that follows
\* at once returns 0 and leaves the quantity the pool had before the Add.
C13_AddRemoveRoundTrip ==
    AddThenRemove => (op.ret = 0 /\ Quantity(pools, op.ps, op.r) = op.was)

\* the same for pools whose quantity was not negative before the Add
C13_RoundTripFromNonNegative ==
    (AddThenRemove /\ op.was >= 0) =>
        (op.ret = 0 /\ Quantity(pools, op.ps, op.r) = op.was)

\* C25: SetCapacity(r, c) on a resource without a pool creates a pool with
\* quantity 0 and capacity c; on an existing pool it changes the capacity only
\* and leaves the quantity, also a quantity above c (these for the calls that
\* return: on a nil PoolSet, which holds no pool, the call panics and no pool
\* changes); and every Add or Set
\* with an argument >= 0 on an existing pool, hence the next one after a
\* SetCapacity, leaves quantity <= capacity; an Add on a pool that held more
\* than its capacity leaves it full and returns the rest.
C25_SetCapacityLazy ==
    /\ [][ op'.name = "SetCapacity" =>
           \A ps \in {op'.ps}, r \in {op'.r}, c \in {op'.q} :
             PoolSetCapacity(ps, r, c) =>
                 IF ps = NilSet
                 THEN pc' = "crashed" /\ pools' = pools
                 ELSE /\ pc' = "idle"
                      /\ IF ~pools[ps][r].ok
                         THEN pools' = [pools EXCEPT ![ps][r] = Pool(c, 0)]
                         ELSE /\ pools' = [pools EXCEPT ![ps][r].Capacity = c]
                              /\ pools'[ps][r].Quantity = pools[ps][r].Quantity ]_vars
    /\ [][ op'.name \in {"Add", "Set"} =>
           \A ps \in {op'.ps}, r \in {op'.r}, q \in {op'.q} \cap (0..MaxArg) :
             ((PoolAdd(ps, r, q) \/ PoolSet(ps, r, q)) /\ HasPool(pools, ps, r)) =>
                 /\ pools'[ps][r].Quantity <= pools'[ps][r].Capacity
                 /\ pools'[ps][r].Capacity = pools[ps][r].Capacity
                 /\ (PoolAdd(ps, r, q) /\ pools[ps][r].Quantity > pools[ps][r].Capacity) =>
                        (pools'[ps][r].Quantity = pools[ps][r].Capacity /\ op'.ret > q) ]_vars

\* a SetCapacity(r, c) came at once after an Add that returned 0 on the same
\* pool, so the pool held quantity <= capacity; it left the quantity the Add
\* had left, which is above c
C25_Witness ==
    /\ op.name = "SetCapacity"
    /\ op.afterAdd
    /\ pc = "idle"
    /\ op.ps # NilSet
    /\ op.r # NilRes
    /\ pools[op.ps][op.r].ok
    /\ pools[op.ps][op.r].Capacity = op.q
    /\ pools[op.ps][op.r].Quantity = op.was + op.added
    /\ pools[op.ps][op.r].Quantity > op.q

\* an Add of q >= 0 returned more than q and left the pool full: the pool
\* held more than its capacity before the Add
C25_AddCutsToCapacity ==
    /\ op.name = "Add"
    /\ op.q >= 0
    /\ op.ps # NilSet
    /\ op.r # NilRes
    /\ op.ret > op.q
    /\ pools[op.ps][op.r].ok
    /\ pools[op.ps][op.r].Quantity = pools[op.ps][op.r].Capacity
    /\ pools[op.ps][op.r].Capacity >= 1

----------------------------------------------------------------------------
(* Properties of the benchmark's sequence of Run calls. *)

\* C24: net-zero flow: for a period-1 rule with one input and one output of
\* the same quantity n >= 0 of one resource of self, whose pool holds
\* n <= quantity <= capacity, every call of the sequence Run(rules, t, ctx),
\* t = 0, 1, 2, ..., returns with the pools as the call found them, hence as
\* they were at the start, and with the rule's lastRun equal to the call's
\* tick.
C24_NetZeroFlow ==
    pc = "returned" =>
        /\ call.result = "nil"
        /\ pools = call.pools0
        /\ ruleStates[1] = call.tick
        /\ call.tick >= 1 => (last.due /\ last.applied = 1 /\ last.exit = "completed")

\* the third call of the sequence returned after a round that took and gave
\* a positive quantity on a full pool
C24_Witness ==
    /\ pc = "returned"
    /\ call.tick = 2
    /\ last.applied = 1
    /\ rules[1].Inputs[1].Quantity >= 1
    /\ pools["A"]["iron_ore"].Quantity = pools["A"]["iron_ore"].Capacity
    /\ ruleStates[1] = 2

----------------------------------------------------------------------------
(* Properties of RuleParser.Parse. *)

\* the blocks of a file whose onfail directive names no block of the file
UnknownOnFail(file) ==
    {k \in 1..Len(file) :
        /\ file[k].onFailRuleName # ""
        /\ \A j \in 1..Len(file) : file[j].Name # file[k].onFailRuleName}

\* C14: Parse returns the rules in source order with every onfail name
\* resolved to a rule of that name of the same file, before or after the
\* referencing rule; when an onfail name matches no rule of the file it
\* returns no rules and an error that names a referencing rule.
C14_OnFailResolution ==
    parse.state = "done" =>
        IF UnknownOnFail(parse.file) = {}
        THEN /\ parse.err = ""
             /\ Len(rules) = Len(parse.file)
             /\ \A k \in 1..Len(rules) :
                   /\ rules[k].Name = parse.file[k].Name
                   /\ IF parse.file[k].onFailRuleName = "" THEN rules[k].OnFail = NoRule
                      ELSE /\ rules[k].OnFail \in 1..Len(rules)
                           /\ rules[rules[k].OnFail].Name = parse.file[k].onFailRuleName
        ELSE /\ rules = <<>>
             /\ \E k \in UnknownOnFail(parse.file) : parse.err = parse.file[k].Name

\* Parse returned a rule whose onfail is a rule defined after it
C14_Witness ==
    /\ parse.state = "done"
    /\ parse.err = ""
    /\ \E k \in 1..Len(rules) : rules[k].OnFail > k

====
